---- MODULE Spec2Model ----
(***************************************************************************)
(* State-machine model of the WebGPU mesh viewer: initApp, the process and *)
(* reset click handlers, the frame loop (src/src/app.js), GPUManager       *)
(* (src/src/app.js:78-138), StlOperations (src/src/StlOperations.js) and   *)
(* Renderer (src/src/Renderer.js), together with the device queue they     *)
(* submit to.  One action is one run-to-completion segment of a JavaScript *)
(* task: a handler from its start (or from the await it resumed at) to its *)
(* next await, return or throw.                                            *)
(***************************************************************************)
EXTENDS Integers, Sequences, FiniteSets, TLC

\* ---- bounds --------------------------------------------------------------
MaxWheels == 20       \* wheel events delivered to the canvas
MaxReversals == 1     \* changes of scroll direction among them
MaxMoves == 2         \* mousemove events delivered to the window
MaxVertexCount == 130 \* vertex counts of the mesh a dispatch is followed on
PerSlot == 5          \* identities per kind of GPU object (recycled when unused)
MaxInflight == 2      \* process handler instances that may be suspended
MaxFaults == 1        \* allocations / promises the platform lets fail after startup

Null == 0
\* client widths and heights of the canvas: 0 and one non-zero extent
ClientSizes == {<< 0, 1 >>, << 1, 0 >>, << 1, 1 >>}
\* positions of the parameter slider
SliderValues == {1, 2}
ReqIds == 1..(MaxInflight + 1)

SlotSeq == << "input", "output", "uniform", "vertex", "index", "depth", "mvp", "staging" >>
Slots == {SlotSeq[i] : i \in 1..Len(SlotSeq)}
\* values of the operation select; "twist" is a name OP_MAP does not know
OpNames == {"scale", "twist"}

\* A GPU object is named by a number; the numbers of one kind of object
\* (slot) form a block of PerSlot consecutive identities.
slotOf(h) == SlotSeq[((h - 1) \div PerSlot) + 1]
SlotIndex == [slot \in Slots |-> CHOOSE i \in 1..Len(SlotSeq) : SlotSeq[i] = slot]
Block == [slot \in Slots |-> (((SlotIndex[slot] - 1) * PerSlot) + 1)..(SlotIndex[slot] * PerSlot)]
HandlesOf(slot) == Block[slot]
DataHandles ==
  HandlesOf("input") \cup HandlesOf("output") \cup HandlesOf("vertex") \cup HandlesOf("staging")
UniformHandles == HandlesOf("uniform")

Max(a, b) == IF a >= b THEN a ELSE b

\* ---- src/src/StlOperations.js --------------------------------------------
\* names every object inherits from Object.prototype
InheritedNames == {"constructor", "toString", "valueOf", "hasOwnProperty", "__proto__"}

\* OP_MAP[operation]: the property lookup on { scale: 0, rotate: 1,
\* translate: 2, inflate: 3 }; a name the object inherits yields a function
\* or an object, any other name yields undefined
OP_MAP(operation) ==
  CASE operation = "scale" -> [kind |-> "number", n |-> 0]
    [] operation = "rotate" -> [kind |-> "number", n |-> 1]
    [] operation = "translate" -> [kind |-> "number", n |-> 2]
    [] operation = "inflate" -> [kind |-> "number", n |-> 3]
    [] operation \in InheritedNames -> [kind |-> "object", n |-> 0]
    [] OTHER -> [kind |-> "undefined", n |-> 0]

\* const opIndex = OP_MAP[operation] ?? 0
opIndex(operation) ==
  IF OP_MAP(operation).kind = "undefined"
  THEN [kind |-> "number", n |-> 0]
  ELSE OP_MAP(operation)

\* a conversion that stores 1 for an object
ToUint32Truthy(v) == IF v.kind = "number" THEN v.n ELSE IF v.kind = "object" THEN 1 ELSE 0

\* the conversion DataView.setUint32 applies to its value: a value that is
\* no number converts to NaN and is stored as 0
ToUint32(v) == IF v.kind = "number" THEN v.n ELSE 0

\* the 8 cube corners in units of 0.5, x y z per vertex
CubePositions ==
  << -1, -1, -1,   1, -1, -1,   1,  1, -1,  -1,  1, -1,
     -1, -1,  1,   1, -1,  1,   1,  1,  1,  -1,  1,  1 >>

CubeIndices ==
  << 4, 5, 6, 4, 6, 7,   1, 0, 3, 1, 3, 2,   5, 1, 2, 5, 2, 6,
     0, 4, 7, 0, 7, 3,   7, 6, 2, 7, 2, 3,   0, 1, 5, 0, 5, 4 >>

\* Contents of a buffer of positions: the data it was initialised with and
\* the kernel passes applied to it since.  A buffer created without
\* mappedAtCreation is zero-filled.
ZeroData == [base |-> "zero", ops |-> << >>]
CubeData == [base |-> "cube", ops |-> << >>]
IndexData == [base |-> "indices", ops |-> << >>]
NoParams == [operation |-> 0, param_value |-> 0, vertex_count |-> 0, pad |-> 0]

NoMesh == [set |-> FALSE, vertices |-> ZeroData, indices |-> << >>, vertexCount |-> 0]

\* a generator that takes the number of floats for the number of vertices
generateCubeMeshFloats(W) ==
  [W EXCEPT !.stl.meshData =
     [set |-> TRUE, vertices |-> CubeData, indices |-> CubeIndices,
      vertexCount |-> Len(CubePositions)]]

\* generateCubeMesh(): this.meshData = { vertices, indices, vertexCount }
generateCubeMesh(W) ==
  [W EXCEPT !.stl.meshData =
     [set |-> TRUE, vertices |-> CubeData, indices |-> CubeIndices,
      vertexCount |-> Len(CubePositions) \div 3]]

\* a kernel that transforms the output buffer in place
KernelInPlace(input, output, p) ==
  IF p.vertex_count = 0 THEN output
  ELSE [base |-> IF output.ops = << >> THEN input.base ELSE output.base,
        ops |-> Append(output.ops, [op |-> p.operation, param |-> p.param_value])]

\* COMPUTE_SHADER main, one dispatch over a whole buffer: every vertex below
\* vertex_count is read from `input`, gets the operation of the parameter
\* block applied and is written to the output; with vertex_count 0 every
\* invocation returns and the output keeps what it held.
Kernel(input, output, p) ==
  IF p.vertex_count = 0 THEN output
  ELSE [base |-> input.base,
        ops |-> Append(input.ops, [op |-> p.operation, param |-> p.param_value])]

\* ---- GPU objects -----------------------------------------------------------
\* W is the JavaScript heap plus the device's object table while a handler
\* runs: W.gpu the device objects, W.stl the stlOps fields, W.ren the
\* renderer fields, W.busy the identities that may not be handed out, W.err
\* the exception thrown so far ("" when none), W.made and W.gone the kinds of
\* object the handler has created and destroyed.
NoBindGroup == [set |-> FALSE, b0 |-> Null, b1 |-> Null, b2 |-> Null]

InitGpu ==
  [live |-> {},
   content |-> [h \in DataHandles |-> ZeroData],
   params |-> [h \in UniformHandles |-> NoParams],
   peak |-> [s \in Slots |-> 0],
   leaked |-> {}]

InitStl ==
  [meshData |-> NoMesh, computePipeline |-> FALSE,
   inputBuffer |-> Null, outputBuffer |-> Null, uniformBuffer |-> Null,
   bindGroup |-> NoBindGroup]

InitRen(cw, ch) ==
  [created |-> FALSE, device |-> FALSE, renderPipeline |-> FALSE,
   mvpBuffer |-> Null, depthTexture |-> Null,
   vertexBuffer |-> Null, indexBuffer |-> Null, indexCount |-> 0,
   canvasW |-> cw, canvasH |-> ch, resizeListener |-> FALSE, controls |-> FALSE]

LiveIn(g, slot) == g.live \cap HandlesOf(slot)

\* identities the heap W still names
HeapRefs(s, r) ==
  {s.inputBuffer, s.outputBuffer, s.uniformBuffer,
   s.bindGroup.b0, s.bindGroup.b1, s.bindGroup.b2,
   r.mvpBuffer, r.depthTexture, r.vertexBuffer, r.indexBuffer} \ {Null}

InUse(W) == W.busy \cup W.gpu.live \cup HeapRefs(W.stl, W.ren)

Fresh(W, slot) ==
  LET free == HandlesOf(slot) \ InUse(W)
  IN CHOOSE h \in free : \A k \in free : h <= k

\* device.createBuffer / device.createTexture: a new live object in `slot`
\* holding `data`; the new identity is left in W.last.
createBuffer(W, slot, data) ==
  LET h == Fresh(W, slot)
      lv == W.gpu.live \cup {h}
      n == Cardinality(lv \cap HandlesOf(slot))
  IN [W EXCEPT !.gpu.live = lv,
               !.gpu.content = IF h \in DataHandles THEN [@ EXCEPT ![h] = data] ELSE @,
               !.gpu.params = IF h \in UniformHandles THEN [@ EXCEPT ![h] = NoParams] ELSE @,
               !.gpu.peak[slot] = Max(@, n),
               !.last = h,
               !.made = @ \cup {slot}]

\* a destroy() call that releases nothing
destroyNothing(W, h) == W

\* buffer.destroy() / texture.destroy()
destroy(W, h) == [W EXCEPT !.gpu.live = @ \ {h}, !.gone = @ \cup {slotOf(h)}]

Throw(W, msg) == [W EXCEPT !.err = msg]

\* StlOperations.createBuffers(); mapFails: the mappedAtCreation allocation
\* of the input buffer throws.
createBuffers(W, mapFails) ==
  LET W1 == IF W.stl.inputBuffer # Null THEN destroy(W, W.stl.inputBuffer) ELSE W
      W2 == IF W1.stl.outputBuffer # Null THEN destroy(W1, W1.stl.outputBuffer) ELSE W1
      W3 == IF W2.stl.uniformBuffer # Null THEN destroy(W2, W2.stl.uniformBuffer) ELSE W2
      W4 == createBuffer(W3, "input", W3.stl.meshData.vertices)
      W5 == [W4 EXCEPT !.stl.inputBuffer = W4.last]
      W6 == createBuffer(W5, "output", ZeroData)
      W7 == [W6 EXCEPT !.stl.outputBuffer = W6.last]
      W8 == createBuffer(W7, "uniform", ZeroData)
      W9 == [W8 EXCEPT !.stl.uniformBuffer = W8.last]
  IN IF mapFails THEN Throw(W3, "RangeError: createBuffer") ELSE W9

\* StlOperations.setupBindGroup()
setupBindGroup(W) ==
  [W EXCEPT !.stl.bindGroup =
     [set |-> TRUE, b0 |-> W.stl.inputBuffer, b1 |-> W.stl.outputBuffer,
      b2 |-> W.stl.uniformBuffer]]

\* ---- src/src/Renderer.js -------------------------------------------------
\* Renderer.resizeCanvas() with the canvas's client size w x h
resizeCanvas(W, w, h) ==
  IF w = 0 \/ h = 0 THEN W
  ELSE LET W1 == [W EXCEPT !.ren.canvasW = w, !.ren.canvasH = h]
           W2 == IF W1.ren.depthTexture # Null
                 THEN destroy(W1, W1.ren.depthTexture) ELSE W1
           W3 == createBuffer(W2, "depth", ZeroData)
       IN [W3 EXCEPT !.ren.depthTexture = W3.last]

\* Renderer.updateMesh(vertices); failAt names the mappedAtCreation
\* allocation that throws: "none", "vertex" or "index".
updateMesh(W, vertices, failAt) ==
  LET W1 == IF W.ren.vertexBuffer # Null THEN destroy(W, W.ren.vertexBuffer) ELSE W
      W2 == createBuffer(W1, "vertex", vertices)
      W3 == [W2 EXCEPT !.ren.vertexBuffer = W2.last]
      needIndex == W3.ren.indexBuffer = Null /\ W3.stl.meshData.set
      W4 == [W3 EXCEPT !.ren.indexCount = Len(W3.stl.meshData.indices)]
      W5 == createBuffer(W4, "index", IndexData)
      W6 == [W5 EXCEPT !.ren.indexBuffer = W5.last]
  IN IF failAt = "vertex" THEN Throw(W1, "RangeError: createBuffer")
     ELSE IF ~needIndex THEN W3
     ELSE IF failAt = "index" THEN Throw(W4, "RangeError: createBuffer")
     ELSE W6

\* Renderer.resetIndexBuffer()
resetIndexBuffer(W) ==
  IF W.ren.indexBuffer # Null
  THEN [destroy(W, W.ren.indexBuffer) EXCEPT !.ren.indexBuffer = Null]
  ELSE W

NoRender ==
  [called |-> FALSE, depth |-> FALSE, canvasW |-> 0, vb |-> FALSE, ib |-> FALSE,
   writes |-> 0, encodes |-> 0, submits |-> 0, drew |-> FALSE, valid |-> FALSE]

\* a render() that also returns early when a mesh buffer is missing
renderSkipsWithoutMesh(R, live) ==
  IF R.depthTexture = Null \/ R.canvasW = 0 \/ R.vertexBuffer = Null \/ R.indexBuffer = Null
  THEN [called |-> TRUE, depth |-> R.depthTexture # Null, canvasW |-> R.canvasW,
        vb |-> R.vertexBuffer # Null, ib |-> R.indexBuffer # Null,
        writes |-> 0, encodes |-> 0, submits |-> 0, drew |-> FALSE, valid |-> TRUE]
  ELSE [called |-> TRUE, depth |-> TRUE, canvasW |-> R.canvasW, vb |-> TRUE, ib |-> TRUE,
        writes |-> 1, encodes |-> 1, submits |-> 1, drew |-> TRUE,
        valid |-> {R.depthTexture, R.mvpBuffer, R.vertexBuffer, R.indexBuffer} \subseteq live]

\* Renderer.render(): what one call does, given the renderer fields R and
\* the live set: uniform writes, command encoders, queue submissions,
\* whether the pass contains drawIndexed, and whether every object the
\* submitted pass uses is still live.
render(R, live) ==
  IF R.depthTexture = Null \/ R.canvasW = 0
  THEN [called |-> TRUE, depth |-> R.depthTexture # Null, canvasW |-> R.canvasW,
        vb |-> R.vertexBuffer # Null, ib |-> R.indexBuffer # Null,
        writes |-> 0, encodes |-> 0, submits |-> 0, drew |-> FALSE, valid |-> TRUE]
  ELSE LET draws == R.vertexBuffer # Null /\ R.indexBuffer # Null
       IN [called |-> TRUE, depth |-> TRUE, canvasW |-> R.canvasW,
           vb |-> R.vertexBuffer # Null, ib |-> R.indexBuffer # Null,
           writes |-> 1, encodes |-> 1, submits |-> 1, drew |-> draws,
           valid |-> /\ R.depthTexture \in live
                     /\ R.mvpBuffer \in live
                     /\ draws => (R.vertexBuffer \in live /\ R.indexBuffer \in live)]

\* ---- state ---------------------------------------------------------------
VARIABLES
  initPc,      \* where initApp stands: the call or await it executes next
  initLog,     \* the init steps completed so far, in order
  env,         \* the platform: navigator.gpu present, client size of the canvas
  gm,          \* gpuManager: adapter, device, and the requests it has made
  lost,        \* device.lost: settled, listener attached, listener has run
  ui,          \* the DOM elements initApp reads and writes
  console,     \* messages passed to console.error
  gpu,         \* the device's objects: live set, slot, contents, peak per slot
  stl,         \* stlOps fields
  ren,         \* renderer fields
  queue,       \* device queue: submitted command buffers not yet executed
  inflight,    \* process click handlers suspended at an await
  raf,         \* outstanding requestAnimationFrame callbacks
  faults,      \* failures the platform has injected into the handlers
  handlers,    \* listeners registered by initApp
  lastRender,  \* what render() did, when the step just taken was a frame
  lastIndex,   \* what the step just taken did to the draw index buffer
  cam,         \* the renderer's camera: rotation, zoom, and the drag in progress
  shader       \* one run of the compute shader: its inputs and what it has written

vars == << initPc, initLog, env, gm, lost, ui, console, gpu, stl, ren, queue,
           inflight, raf, faults, handlers, lastRender, lastIndex, cam, shader >>

\* the variables of the application proper
appVars == << initPc, initLog, env, gm, lost, ui, console, gpu, stl, ren, queue,
              inflight, raf, faults, handlers, lastRender, lastIndex >>

\* by: the handler the step belonged to ("init", "process", "reset", "other")
NoIndexEffect == [by |-> "other", made |-> FALSE, destroyed |-> FALSE]
IndexEffect(by, W) ==
  [by |-> by, made |-> "index" \in W.made, destroyed |-> "index" \in W.gone]

NoCmd ==
  [kind |-> "none", req |-> 0, valid |-> FALSE, a |-> Null, b |-> Null, c |-> Null,
   wbuf |-> Null, wvalid |-> FALSE, payload |-> NoParams]

CmdRefs(cmd) == {cmd.a, cmd.b, cmd.c, cmd.wbuf} \ {Null}

\* identities some JavaScript reference or queued command still names
TaskRefs(q, infl) ==
  ( UNION {CmdRefs(q[i]) : i \in 1..Len(q)}
    \cup {infl[i].staging : i \in 1..Len(infl)}
    \cup {infl[i].out : i \in 1..Len(infl)}
    \cup {infl[i].src : i \in 1..Len(infl)} ) \ {Null}

Refs(s, r, q, infl) == HeapRefs(s, r) \cup TaskRefs(q, infl)

Busy == Refs(stl, ren, queue, inflight) \cup gpu.live
\* every kind of object has n identities left
Room(n) ==
  LET busy == Busy
  IN \A slot \in Slots : Cardinality(HandlesOf(slot) \ busy) >= n

\* the heap as a handler finds it
Enter ==
  [gpu |-> gpu, stl |-> stl, ren |-> ren, busy |-> TaskRefs(queue, inflight),
   err |-> "", last |-> Null, cmd |-> NoCmd, made |-> {}, gone |-> {}]

\* Every reference of the program, in a fixed order.  Objects are renamed
\* after each handler so that the objects of one kind are numbered in the
\* order in which this sequence first names them: two heaps that differ
\* only in the numbers their objects carry are one state.
RoleSeq(s, r, q, infl) ==
  << s.inputBuffer, s.bindGroup.b0, s.outputBuffer, s.bindGroup.b1,
     s.uniformBuffer, s.bindGroup.b2,
     r.mvpBuffer, r.depthTexture, r.vertexBuffer, r.indexBuffer >>
  \o [k \in 1..(3 * Len(infl)) |->
        LET i == ((k - 1) \div 3) + 1
            f == (k - 1) % 3
        IN IF f = 0 THEN infl[i].out ELSE IF f = 1 THEN infl[i].src ELSE infl[i].staging]
  \o [k \in 1..(4 * Len(q)) |->
        LET i == ((k - 1) \div 4) + 1
            f == (k - 1) % 4
        IN IF f = 0 THEN q[i].a ELSE IF f = 1 THEN q[i].b
           ELSE IF f = 2 THEN q[i].c ELSE q[i].wbuf]

RECURSIVE Distinct(_, _)
\* the non-null entries of sq in the order of their first occurrence
Distinct(sq, acc) ==
  IF sq = << >> THEN acc
  ELSE LET h == Head(sq)
       IN Distinct(Tail(sq),
                   IF h = Null \/ \E i \in 1..Len(acc) : acc[i] = h
                   THEN acc ELSE Append(acc, h))

BlockStart(h) == (((h - 1) \div PerSlot) * PerSlot) + 1

\* ord: the distinct referenced objects in role order; the new name of
\* ord[i] is the start of its block plus the number of earlier objects of
\* the same block
NewName(ord, i) ==
  BlockStart(ord[i])
    + Cardinality({j \in 1..(i - 1) : BlockStart(ord[j]) = BlockStart(ord[i])})

RECURSIVE NewNames(_, _)
NewNames(ord, acc) ==
  IF Len(acc) = Len(ord) THEN acc
  ELSE NewNames(ord, Append(acc, NewName(ord, Len(acc) + 1)))

Naming(sq) ==
  LET ord == Distinct(sq, << >>)
  IN [old |-> ord, new |-> NewNames(ord, << >>)]

Rename(nm, h) ==
  IF \E i \in 1..Len(nm.old) : nm.old[i] = h
  THEN nm.new[CHOOSE i \in 1..Len(nm.old) : nm.old[i] = h]
  ELSE Null

\* the object that gets the name t, Null when none does
Unname(nm, t) ==
  IF \E i \in 1..Len(nm.new) : nm.new[i] = t
  THEN nm.old[CHOOSE i \in 1..Len(nm.new) : nm.new[i] = t]
  ELSE Null

\* objects nothing names any more are collected; g.leaked keeps the kinds of
\* object that were still live when the last reference to them went
Collect(g, nm) ==
  [live |-> {Rename(nm, h) : h \in g.live} \ {Null},
   content |-> [t \in DataHandles |->
                  IF Unname(nm, t) # Null THEN g.content[Unname(nm, t)] ELSE ZeroData],
   params |-> [t \in UniformHandles |->
                  IF Unname(nm, t) # Null THEN g.params[Unname(nm, t)] ELSE NoParams],
   peak |-> g.peak,
   leaked |-> g.leaked \cup {slotOf(h) : h \in {x \in g.live : Rename(nm, x) = Null}}]

RenameCmd(cmd, nm) ==
  [cmd EXCEPT !.a = Rename(nm, @), !.b = Rename(nm, @), !.c = Rename(nm, @),
              !.wbuf = Rename(nm, @)]

\* the heap as a handler leaves it
Leave(W0, q0, infl0) ==
  \E W \in {W0}, q \in {q0}, infl \in {infl0} :
  \E nm \in {Naming(RoleSeq(W.stl, W.ren, q, infl))} :
     /\ stl' = [W.stl EXCEPT !.inputBuffer = Rename(nm, @),
                             !.outputBuffer = Rename(nm, @),
                             !.uniformBuffer = Rename(nm, @),
                             !.bindGroup.b0 = Rename(nm, @),
                             !.bindGroup.b1 = Rename(nm, @),
                             !.bindGroup.b2 = Rename(nm, @)]
     /\ ren' = [W.ren EXCEPT !.mvpBuffer = Rename(nm, @),
                             !.depthTexture = Rename(nm, @),
                             !.vertexBuffer = Rename(nm, @),
                             !.indexBuffer = Rename(nm, @)]
     /\ queue' = [i \in 1..Len(q) |-> RenameCmd(q[i], nm)]
     /\ inflight' = [i \in 1..Len(infl) |->
                       [infl[i] EXCEPT !.out = Rename(nm, @), !.src = Rename(nm, @),
                                       !.staging = Rename(nm, @)]]
     /\ gpu' = Collect(W.gpu, nm)

\* Renderer constructor: rotation = {x: -0.4, y: 0.6} in units of 0.005 rad,
\* zoom = 2.5 in millionths; setupControls: let dragging = false.  `event` is
\* the input event the step just taken delivered, with its arguments; wheels,
\* dir, turns and moves count the wheel and mousemove events delivered so far,
\* the direction of the last wheel event and the changes of direction.
NoEvent == [type |-> "none", button |-> 0, target |-> "", dx |-> 0, dy |-> 0]
InitCam ==
  [rotX |-> -80, rotY |-> 120, zoom |-> 2500000, dragging |-> FALSE, event |-> NoEvent,
   wheels |-> 0, dir |-> 0, turns |-> 0, moves |-> 0]
NoShader == [phase |-> "none"]

\* the JavaScript thread is between tasks: initApp is not in the middle of
\* the synchronous stretch that follows gpuManager.init()
TaskBoundary ==
  initPc \in {"start", "requestAdapter", "requestDevice", "requestAdapterInfo",
              "running", "failed"}

InitUi ==
  [gpuInfo |-> "", vertexCount |-> "", computeTime |-> "",
   paramSlider |-> 1, paramValue |-> 1,
   processDisabled |-> FALSE, processText |-> "Process",
   errorHidden |-> TRUE, errorText |-> "", errorCount |-> 0]

\* the page before DOMContentLoaded
PageLoaded ==
  /\ initPc = "start"
  /\ initLog = << >>
  /\ \E nav \in BOOLEAN, sz \in ClientSizes :
       env = [navGpu |-> nav, clientW |-> sz[1], clientH |-> sz[2]]
  /\ gm = [adapter |-> FALSE, device |-> FALSE, adapterRequests |-> 0, deviceRequests |-> 0]
  /\ lost = [lost |-> FALSE, listening |-> FALSE, logged |-> FALSE]
  /\ ui = InitUi
  /\ console = {}
  /\ gpu = InitGpu
  /\ stl = InitStl
  /\ ren = InitRen(1, 1)
  /\ queue = << >>
  /\ inflight = << >>
  /\ raf = 0
  /\ faults = 0
  /\ handlers = [slider |-> FALSE, process |-> FALSE, reset |-> FALSE]
  /\ lastRender = NoRender
  /\ lastIndex = NoIndexEffect

Init ==
  /\ PageLoaded
  /\ cam = InitCam
  /\ shader = NoShader

\* ---- src/src/app.js: initApp ---------------------------------------------
\* a catch block that only logs
CatchConsoleOnly(msg) ==
  /\ initPc' = "failed"
  /\ console' = console \cup {"Init failed"}
  /\ UNCHANGED ui

\* catch (err): console.error, un-hide the error panel, show err.message
Catch(msg) ==
  /\ initPc' = "failed"
  /\ console' = console \cup {"Init failed"}
  /\ ui' = [ui EXCEPT !.errorHidden = FALSE, !.errorText = msg,
                      !.errorCount = @ + 1]

\* an init step whose exception is swallowed: initApp carries on
InitStepUnguarded(W0, step, next) ==
  \E W \in {W0} :
  /\ Leave(W, queue, inflight)
  /\ lastIndex' = IndexEffect("init", W)
  /\ initPc' = next
  /\ initLog' = Append(initLog, step)
  /\ UNCHANGED << ui, console >>

\* one synchronous init step that took the heap from Enter to W
InitStep(W0, step, next) ==
  \E W \in {W0} :
  /\ Leave(W, queue, inflight)
  /\ lastIndex' = IndexEffect("init", W)
  /\ IF W.err = ""
     THEN /\ initPc' = next
          /\ initLog' = Append(initLog, step)
          /\ UNCHANGED << ui, console >>
     ELSE /\ Catch(W.err)
          /\ UNCHANGED initLog

\* DOMContentLoaded: initApp runs into gpuManager.init() up to requestAdapter
InitStart ==
  /\ initPc = "start"
  /\ IF ~env.navGpu
     THEN /\ Catch("WebGPU is not supported in this browser.")
          /\ UNCHANGED gm
     ELSE /\ initPc' = "requestAdapter"
          /\ gm' = [gm EXCEPT !.adapterRequests = @ + 1]
          /\ UNCHANGED << ui, console >>
  /\ UNCHANGED << initLog, env, lost, gpu, stl, ren, queue, inflight, raf, faults,
                  handlers >>
  /\ lastRender' = NoRender
  /\ UNCHANGED << cam, shader >>
  /\ lastIndex' = NoIndexEffect

\* navigator.gpu.requestAdapter() settles: an adapter, null, or a rejection
AdapterSettled(outcome) ==
  /\ initPc = "requestAdapter"
  /\ CASE outcome = "adapter" ->
            /\ initPc' = "requestDevice"
            /\ gm' = [gm EXCEPT !.adapter = TRUE, !.deviceRequests = @ + 1]
            /\ UNCHANGED << ui, console >>
       [] outcome = "null" ->
            /\ Catch("Could not request WebGPU adapter. Check GPU drivers.")
            /\ UNCHANGED gm
       [] OTHER ->
            /\ Catch("requestAdapter rejected")
            /\ UNCHANGED gm
  /\ UNCHANGED << initLog, env, lost, gpu, stl, ren, queue, inflight, raf, faults,
                  handlers >>
  /\ lastRender' = NoRender
  /\ UNCHANGED << cam, shader >>
  /\ lastIndex' = NoIndexEffect

\* adapter.requestDevice() settles; on success the device.lost listener is
\* attached and requestAdapterInfo() is awaited
DeviceSettled(outcome) ==
  /\ initPc = "requestDevice"
  /\ IF outcome = "device"
     THEN /\ initPc' = "requestAdapterInfo"
          /\ gm' = [gm EXCEPT !.device = TRUE]
          /\ lost' = [lost EXCEPT !.listening = TRUE]
          /\ UNCHANGED << ui, console >>
     ELSE /\ Catch("requestDevice rejected")
          /\ UNCHANGED << gm, lost >>
  /\ UNCHANGED << initLog, env, gpu, stl, ren, queue, inflight, raf, faults,
                  handlers >>
  /\ lastRender' = NoRender
  /\ UNCHANGED << cam, shader >>
  /\ lastIndex' = NoIndexEffect

\* adapter.requestAdapterInfo() settles; gpuManager.init() returns and
\* initApp shows the adapter description
InfoSettled(outcome) ==
  /\ initPc = "requestAdapterInfo"
  /\ IF outcome = "info"
     THEN /\ initPc' = "generateCubeMesh"
          /\ initLog' = Append(initLog, "gpuManager.init")
          /\ ui' = [ui EXCEPT !.gpuInfo = "adapter info"]
          /\ UNCHANGED console
     ELSE /\ Catch("requestAdapterInfo failed")
          /\ UNCHANGED initLog
  /\ UNCHANGED << env, gm, lost, gpu, stl, ren, queue, inflight, raf, faults,
                  handlers >>
  /\ lastRender' = NoRender
  /\ UNCHANGED << cam, shader >>
  /\ lastIndex' = NoIndexEffect

InitRest ==
  /\ UNCHANGED << env, gm, lost, raf, faults, handlers >>
  /\ lastRender' = NoRender
  /\ UNCHANGED << cam, shader >>

InitGenerateCubeMesh ==
  /\ initPc = "generateCubeMesh"
  /\ InitStep(generateCubeMesh(Enter), "generateCubeMesh", "initComputePipeline")
  /\ InitRest

\* StlOperations.initComputePipeline()
initComputePipeline(W) == [W EXCEPT !.stl.computePipeline = TRUE]

InitComputePipeline ==
  /\ initPc = "initComputePipeline"
  /\ InitStep(initComputePipeline(Enter), "initComputePipeline", "createBuffers")
  /\ InitRest

InitCreateBuffers(mapFails) ==
  /\ initPc = "createBuffers"
  /\ Room(1)
  /\ InitStep(createBuffers(Enter, mapFails), "createBuffers", "setupBindGroup")
  /\ InitRest

InitSetupBindGroup ==
  /\ initPc = "setupBindGroup"
  /\ InitStep(setupBindGroup(Enter), "setupBindGroup", "rendererInit")
  /\ InitRest

\* new Renderer(canvas) followed by Renderer.init(); ctxFails: the canvas
\* gives no 'webgpu' context, so ctx.configure throws
rendererInit(W, ctxFails, w, h) ==
  LET W0 == [W EXCEPT !.ren.created = TRUE, !.ren.device = TRUE]
      W1 == [W0 EXCEPT !.ren.renderPipeline = TRUE]
      W2 == createBuffer(W1, "mvp", ZeroData)
      W3 == [W2 EXCEPT !.ren.mvpBuffer = W2.last, !.ren.controls = TRUE]
      W4 == resizeCanvas(W3, w, h)
  IN IF ctxFails THEN Throw(W0, "TypeError: ctx is null")
     ELSE [W4 EXCEPT !.ren.resizeListener = TRUE]

InitRenderer(ctxFails) ==
  /\ initPc = "rendererInit"
  /\ Room(1)
  /\ InitStep(rendererInit(Enter, ctxFails, env.clientW, env.clientH),
              "rendererInit", "updateMesh")
  /\ InitRest

InitUpdateMesh(failAt) ==
  /\ initPc = "updateMesh"
  /\ Room(1)
  /\ \E W \in {updateMesh(Enter, stl.meshData.vertices, failAt)} :
        /\ Leave(W, queue, inflight)
        /\ lastIndex' = IndexEffect("init", W)
        /\ IF W.err = ""
           THEN /\ initPc' = "addEventListener"
                /\ initLog' = Append(initLog, "updateMesh")
                /\ ui' = [ui EXCEPT !.vertexCount = "8"]
                /\ UNCHANGED console
           ELSE /\ Catch(W.err)
                /\ UNCHANGED initLog
  /\ InitRest

\* the three addEventListener calls of initApp
InitRegisterHandlers ==
  /\ initPc = "addEventListener"
  /\ initPc' = "animate"
  /\ handlers' = [slider |-> TRUE, process |-> TRUE, reset |-> TRUE]
  /\ initLog' = Append(initLog, "addEventListener")
  /\ UNCHANGED << env, gm, lost, ui, console, gpu, stl, ren, queue, inflight,
                  raf, faults >>
  /\ lastRender' = NoRender
  /\ UNCHANGED << cam, shader >>
  /\ lastIndex' = NoIndexEffect

\* an animate() that requests two frames
animateTwice(pending) ==
  LET r == render(ren, gpu.live)
  IN /\ lastRender' = r
     /\ UNCHANGED << cam, shader >>
     /\ lastIndex' = NoIndexEffect
     /\ raf' = pending + 2

\* animate(): renderer.render(); requestAnimationFrame(animate); pending is
\* the number of frame requests outstanding while animate runs
animate(pending) ==
  LET r == render(ren, gpu.live)
  IN /\ lastRender' = r
     /\ UNCHANGED << cam, shader >>
     /\ lastIndex' = NoIndexEffect
     /\ raf' = pending + 1

\* the first animate() call, made by initApp itself
InitAnimate ==
  /\ initPc = "animate"
  /\ animate(raf)
  /\ initPc' = "running"
  /\ initLog' = Append(initLog, "animate")
  /\ UNCHANGED << env, gm, lost, ui, console, gpu, stl, ren, queue, inflight,
                  faults, handlers >>

\* a requestAnimationFrame callback fires
Frame ==
  /\ raf > 0
  /\ TaskBoundary
  /\ animate(raf - 1)
  /\ UNCHANGED << initPc, initLog, env, gm, lost, ui, console, gpu, stl, ren,
                  queue, inflight, faults, handlers >>

\* ---- events ----------------------------------------------------------------
\* window 'resize': the canvas now has client size w x h
Resize(w, h) ==
  /\ TaskBoundary
  /\ ren.resizeListener
  /\ Room(1)
  /\ env' = [env EXCEPT !.clientW = w, !.clientH = h]
  /\ \E W \in {resizeCanvas(Enter, w, h)} :
        /\ Leave(W, queue, inflight)
        /\ lastIndex' = IndexEffect("other", W)
  /\ UNCHANGED << initPc, initLog, gm, lost, ui, console, raf, faults, handlers >>
  /\ lastRender' = NoRender
  /\ UNCHANGED << cam, shader >>

\* the device is lost: device.lost settles and its reaction
\* (info) => console.error('WebGPU device lost:', ...) runs
DeviceLost ==
  /\ TaskBoundary
  /\ gm.device /\ lost.listening
  /\ ~lost.lost
  /\ lost' = [lost EXCEPT !.lost = TRUE, !.logged = TRUE]
  /\ console' = console \cup {"WebGPU device lost"}
  /\ UNCHANGED << initPc, initLog, env, gm, ui, gpu, stl, ren, queue, inflight,
                  raf, faults, handlers >>
  /\ lastRender' = NoRender
  /\ UNCHANGED << cam, shader >>
  /\ lastIndex' = NoIndexEffect

\* paramSlider 'input': the user moved the slider to v
SliderInput(v) ==
  /\ TaskBoundary
  /\ handlers.slider
  /\ ui' = [ui EXCEPT !.paramSlider = v, !.paramValue = v]
  /\ UNCHANGED << initPc, initLog, env, gm, lost, console, gpu, stl, ren, queue,
                  inflight, raf, faults, handlers >>
  /\ lastRender' = NoRender
  /\ UNCHANGED << cam, shader >>
  /\ lastIndex' = NoIndexEffect

\* ---- process click handler -----------------------------------------------
FreeReqIds ==
  ReqIds \ ({inflight[i].id : i \in 1..Len(inflight)}
            \cup {queue[i].req : i \in 1..Len(queue)})

Pending(id, kind) == \E i \in 1..Len(queue) : queue[i].req = id /\ queue[i].kind = kind

\* StlOperations.processOperation up to its await: the parameter block is
\* written, the compute pass encoded with the bind group and submitted
processOperation(id, operation, param) ==
  [NoCmd EXCEPT
     !.kind = "dispatch", !.req = id,
     !.a = stl.bindGroup.b0, !.b = stl.bindGroup.b1, !.c = stl.bindGroup.b2,
     !.valid = {stl.bindGroup.b0, stl.bindGroup.b1, stl.bindGroup.b2} \subseteq gpu.live,
     !.wbuf = stl.uniformBuffer, !.wvalid = stl.uniformBuffer \in gpu.live,
     !.payload = [operation |-> ToUint32(opIndex(operation)), param_value |-> param,
                  vertex_count |-> stl.meshData.vertexCount, pad |-> 0]]

\* a handler that changes the label but leaves the button enabled
processBtnLeftEnabled(u) == [u EXCEPT !.processText = "Processing..."]

\* processBtn.disabled = true; processBtn.textContent = 'Processing...'
processBtnBusy(u) == [u EXCEPT !.processDisabled = TRUE, !.processText = "Processing..."]

\* processBtn.disabled = false; processBtn.textContent = 'Process'
processBtnIdle(u) == [u EXCEPT !.processDisabled = FALSE, !.processText = "Process"]

\* processBtn 'click' up to `await device.queue.onSubmittedWorkDone()`: what
\* the handler does to the application
ClickHandler(operation) ==
  /\ TaskBoundary
  /\ handlers.process
  /\ ~ui.processDisabled
  /\ Len(inflight) < MaxInflight
  /\ FreeReqIds # {}
  /\ LET id == CHOOSE i \in FreeReqIds : \A j \in FreeReqIds : i <= j
     IN /\ ui' = processBtnBusy(ui)
        /\ queue' = Append(queue, processOperation(id, operation, ui.paramSlider))
        /\ inflight' = Append(inflight, [id |-> id, pc |-> "workDone", staging |-> Null,
                                         src |-> Null, out |-> stl.bindGroup.b1])
  /\ UNCHANGED << initPc, initLog, env, gm, lost, console, gpu, stl, ren, raf, faults,
                  handlers >>
  /\ lastRender' = NoRender
  /\ lastIndex' = NoIndexEffect

ProcessClick(operation) ==
  /\ ClickHandler(operation)
  /\ UNCHANGED << cam, shader >>

RemoveAt(sq, i) == [j \in 1..(Len(sq) - 1) |-> IF j < i THEN sq[j] ELSE sq[j + 1]]

\* processOperation without its await: the handler goes on at once
WorkDoneUnawaited(i) == TRUE

\* onSubmittedWorkDone() has resolved for request i
WorkDone(i) == ~Pending(inflight[i].id, "dispatch")

\* GPUManager.readBuffer up to `await stagingBuffer.mapAsync`
readBuffer(W, id, srcBuffer) ==
  LET W1 == createBuffer(W, "staging", ZeroData)
  IN [W1 EXCEPT !.cmd = [NoCmd EXCEPT !.kind = "copy", !.req = id,
                                      !.a = srcBuffer, !.b = W1.last,
                                      !.valid = srcBuffer \in W1.gpu.live]]

\* processOperation returns; getProcessedVertices() runs into readBuffer
ProcessWorkDone(i) ==
  /\ TaskBoundary
  /\ i \in 1..Len(inflight)
  /\ inflight[i].pc = "workDone"
  /\ WorkDone(i)
  /\ Room(1)
  /\ \E W \in {readBuffer(Enter, inflight[i].id, stl.outputBuffer)} :
        /\ Leave(W, Append(queue, W.cmd),
                 [inflight EXCEPT ![i].pc = "mapAsync", ![i].staging = W.last,
                                  ![i].src = stl.outputBuffer])
        /\ lastIndex' = IndexEffect("other", W)
  /\ UNCHANGED << initPc, initLog, env, gm, lost, ui, console, raf, faults, handlers >>
  /\ lastRender' = NoRender
  /\ UNCHANGED << cam, shader >>

\* an awaited promise of request i rejects: the handler ends with an
\* unhandled rejection
ProcessReject(i) ==
  /\ TaskBoundary
  /\ i \in 1..Len(inflight)
  /\ faults < MaxFaults
  /\ faults' = faults + 1
  /\ Leave(Enter, queue, RemoveAt(inflight, i))
  /\ UNCHANGED << initPc, initLog, env, gm, lost, ui, console, raf, handlers >>
  /\ lastRender' = NoRender
  /\ UNCHANGED << cam, shader >>
  /\ lastIndex' = NoIndexEffect

\* mapAsync resolved: readBuffer copies the result out and destroys the
\* staging buffer, the handler uploads the positions and re-enables the button
MappedHandler(i, failAt) ==
  /\ TaskBoundary
  /\ i \in 1..Len(inflight)
  /\ inflight[i].pc = "mapAsync"
  /\ ~Pending(inflight[i].id, "copy")
  /\ Room(1)
  /\ failAt # "none" => faults < MaxFaults
  /\ \E W1 \in {destroy(Enter, inflight[i].staging)} :
     \E W2 \in {updateMesh(W1, gpu.content[inflight[i].staging], failAt)} :
        /\ Leave(W2, queue, RemoveAt(inflight, i))
        /\ lastIndex' = IndexEffect("process", W2)
        /\ IF W2.err = ""
           THEN /\ ui' = processBtnIdle([ui EXCEPT !.computeTime = "elapsed"])
                /\ UNCHANGED faults
           ELSE /\ UNCHANGED ui
                /\ faults' = faults + 1
  /\ UNCHANGED << initPc, initLog, env, gm, lost, console, raf, handlers >>
  /\ lastRender' = NoRender

ProcessMapped(i, failAt) ==
  /\ MappedHandler(i, failAt)
  /\ UNCHANGED << cam, shader >>

\* ---- reset click handler ---------------------------------------------------
\* resetBtn 'click': what the handler does to the application
ResetHandler(mapFails, failAt) ==
  /\ TaskBoundary
  /\ handlers.reset
  /\ Room(1)
  /\ (mapFails \/ failAt # "none") => faults < MaxFaults
  /\ \E W1 \in {generateCubeMesh(Enter)} :
     \E W2 \in {createBuffers(W1, mapFails)} :
     \E W3 \in {setupBindGroup(W2)} :
     \E W4 \in {resetIndexBuffer(W3)} :
     \E W5 \in {updateMesh(W4, W4.stl.meshData.vertices, failAt)} :
     \E W \in {IF W2.err # "" THEN W2 ELSE W5} :
        /\ Leave(W, queue, inflight)
        /\ lastIndex' = IndexEffect("reset", W)
        /\ IF W.err = ""
           THEN /\ ui' = [ui EXCEPT !.vertexCount = "8", !.computeTime = "0ms",
                                    !.paramSlider = 1, !.paramValue = 1]
                /\ UNCHANGED faults
           ELSE /\ UNCHANGED ui
                /\ faults' = faults + 1
  /\ UNCHANGED << initPc, initLog, env, gm, lost, console, raf, handlers >>
  /\ lastRender' = NoRender

ResetClick(mapFails, failAt) ==
  /\ ResetHandler(mapFails, failAt)
  /\ UNCHANGED << cam, shader >>

\* ---- the device ------------------------------------------------------------
\* the device executes the oldest submitted command buffer
Execute(g, cmd) ==
  LET g1 == IF cmd.wvalid THEN [g EXCEPT !.params[cmd.wbuf] = cmd.payload] ELSE g
  IN CASE cmd.kind = "dispatch" /\ cmd.valid ->
            [g1 EXCEPT !.content[cmd.b] =
               Kernel(g1.content[cmd.a], g1.content[cmd.b], g1.params[cmd.c])]
       [] cmd.kind = "copy" /\ cmd.valid ->
            [g1 EXCEPT !.content[cmd.b] = g1.content[cmd.a]]
       [] OTHER -> g1

GpuExecute ==
  /\ queue # << >>
  /\ Leave([Enter EXCEPT !.gpu = Execute(gpu, Head(queue))], Tail(queue), inflight)
  /\ UNCHANGED << initPc, initLog, env, gm, lost, ui, console, raf, faults, handlers >>
  /\ lastRender' = NoRender
  /\ UNCHANGED << cam, shader >>
  /\ lastIndex' = NoIndexEffect

Next ==
  \/ InitStart
  \/ \E o \in {"adapter", "null", "reject"} : AdapterSettled(o)
  \/ \E o \in {"device", "reject"} : DeviceSettled(o)
  \/ \E o \in {"info", "reject"} : InfoSettled(o)
  \/ InitGenerateCubeMesh
  \/ InitComputePipeline
  \/ \E f \in BOOLEAN : InitCreateBuffers(f)
  \/ InitSetupBindGroup
  \/ \E f \in BOOLEAN : InitRenderer(f)
  \/ \E f \in {"none", "vertex", "index"} : InitUpdateMesh(f)
  \/ InitRegisterHandlers
  \/ InitAnimate
  \/ Frame
  \/ \E sz \in ClientSizes : Resize(sz[1], sz[2])
  \/ DeviceLost
  \/ \E v \in SliderValues : SliderInput(v)
  \/ \E o \in OpNames : ProcessClick(o)
  \/ \E i \in 1..MaxInflight : ProcessWorkDone(i)
  \/ \E i \in 1..MaxInflight : ProcessReject(i)
  \/ \E i \in 1..MaxInflight, f \in {"none", "vertex", "index"} : ProcessMapped(i, f)
  \/ \E m \in BOOLEAN, f \in {"none", "vertex", "index"} : ResetClick(m, f)
  \/ GpuExecute

Spec == Init /\ [][Next]_vars

\* ---- numbers -----------------------------------------------------------------
\* The shader's f32 values and JavaScript's numbers are modelled as exact
\* fractions [n, d] in lowest terms with d > 0.
Abs(a) == IF a < 0 THEN -a ELSE a

RECURSIVE Gcd(_, _)
Gcd(a, b) == IF b = 0 THEN a ELSE Gcd(b, a % b)

Q(n, d) ==
  LET g == Gcd(Abs(n), Abs(d))
      sgn == IF d < 0 THEN -1 ELSE 1
  IN [n |-> (sgn * n) \div g, d |-> (sgn * d) \div g]

QInt(k) == [n |-> k, d |-> 1]
QAdd(a, b) == Q((a.n * b.d) + (b.n * a.d), a.d * b.d)
QNeg(a) == [n |-> -a.n, d |-> a.d]
QSub(a, b) == QAdd(a, QNeg(b))
QMul(a, b) == Q(a.n * b.n, a.d * b.d)
QDiv(a, b) == Q(a.n * b.d, a.d * b.n)
QLess(a, b) == (a.n * b.d) < (b.n * a.d)
QAbs(a) == [n |-> Abs(a.n), d |-> a.d]

RECURSIVE RootIn(_, _, _)
\* the largest k in lo..hi with k * k <= n, by bisection
RootIn(n, lo, hi) ==
  IF lo = hi THEN lo
  ELSE LET mid == (lo + hi + 1) \div 2
       IN IF mid * mid <= n THEN RootIn(n, mid, hi) ELSE RootIn(n, lo, mid - 1)
\* 46340 is the largest integer whose square fits 32 bits
Root(n) == RootIn(n, 0, IF n < 46340 THEN n ELSE 46340)
\* whether the square root of the fraction is a fraction again
HasRoot(a) ==
  /\ a.n >= 0
  /\ Root(a.n) * Root(a.n) = a.n
  /\ Root(a.d) * Root(a.d) = a.d
\* sqrt(), on the fractions that have a root
QSqrt(a) == [n |-> Root(a.n), d |-> Root(a.d)]

RECURSIVE Pow2(_)
Pow2(k) == IF k = 0 THEN 1 ELSE 2 * Pow2(k - 1)

\* ---- the parameter block: host encoding and shader layout -------------------
\* the four bytes of a u32, most significant first
U32Bytes(n) ==
  << (n \div 16777216) % 256, (n \div 65536) % 256, (n \div 256) % 256, n % 256 >>

RECURSIVE ExpDown(_, _)
\* the binary exponent e of a fraction a > 0: 2^e <= a < 2^(e+1)
ExpDown(a, e) ==
  IF QLess(a, QInt(1)) THEN ExpDown(QMul(a, QInt(2)), e - 1)
  ELSE IF QLess(a, QInt(2)) THEN e
  ELSE ExpDown(QDiv(a, QInt(2)), e + 1)

\* whether a float32 holds the fraction exactly
IsF32(a) ==
  \/ a.n = 0
  \/ /\ a.d \in {Pow2(k) : k \in 0..8}
     /\ Abs(a.n) < 256

\* the four bytes of an IEEE 754 binary32, most significant first: sign bit,
\* 8 exponent bits biased by 127, 23 fraction bits
F32Bytes(a) ==
  IF a.n = 0 THEN << 0, 0, 0, 0 >>
  ELSE LET sign == IF a.n < 0 THEN 1 ELSE 0
           e == ExpDown(QAbs(a), 0)
           unit == IF e >= 0 THEN QDiv(QAbs(a), QInt(Pow2(e)))
                   ELSE QMul(QAbs(a), QInt(Pow2(-e)))
           mant == QMul(QSub(unit, QInt(1)), QInt(8388608)).n
           biased == e + 127
       IN << (sign * 128) + (biased \div 2),
             ((biased % 2) * 128) + (mant \div 65536),
             (mant \div 256) % 256,
             mant % 256 >>

\* stores that ignore littleEndian and write the most significant byte first
setBytesBigEndian(view, byteOffset, be, littleEndian) ==
  [i \in 1..Len(view) |->
     IF i > byteOffset /\ i <= byteOffset + 4 THEN be[i - byteOffset] ELSE view[i]]

\* DataView.setUint32 / setFloat32(byteOffset, value, littleEndian): `be` the
\* value's four bytes, most significant first
setBytes(view, byteOffset, be, littleEndian) ==
  [i \in 1..Len(view) |->
     IF i > byteOffset /\ i <= byteOffset + 4
     THEN IF littleEndian THEN be[5 - (i - byteOffset)] ELSE be[i - byteOffset]
     ELSE view[i]]

\* processOperation: new ArrayBuffer(16) and its four DataView stores
uniformData(operation, param, vertexCount) ==
  LET b0 == [i \in 1..16 |-> 0]
      b1 == setBytes(b0, 0, U32Bytes(ToUint32(opIndex(operation))), TRUE)
      b2 == setBytes(b1, 4, F32Bytes(param), TRUE)
      b3 == setBytes(b2, 8, U32Bytes(vertexCount), TRUE)
  IN setBytes(b3, 12, U32Bytes(0), TRUE)

\* a u32 field of a uniform struct at a byte offset (GPU memory is
\* little-endian)
LoadU32(bytes, offset) ==
  bytes[offset + 1] + (256 * bytes[offset + 2]) + (65536 * bytes[offset + 3])
    + (16777216 * bytes[offset + 4])

\* an f32 field of a uniform struct at a byte offset
LoadF32(bytes, offset) ==
  LET sign == bytes[offset + 4] \div 128
      biased == ((bytes[offset + 4] % 128) * 2) + (bytes[offset + 3] \div 128)
      mant == ((bytes[offset + 3] % 128) * 65536) + (256 * bytes[offset + 2])
                + bytes[offset + 1]
      unit == Q(8388608 + mant, 8388608)
      mag == IF biased >= 127 THEN QMul(unit, QInt(Pow2(biased - 127)))
             ELSE QDiv(unit, QInt(Pow2(127 - biased)))
  IN IF biased = 0 /\ mant = 0 THEN QInt(0)
     ELSE IF sign = 1 THEN QNeg(mag) ELSE mag

\* COMPUTE_SHADER struct Params { operation: u32, param_value: f32,
\* vertex_count: u32, _pad: u32 } read from the uniform buffer's bytes
Params(bytes) ==
  [operation |-> LoadU32(bytes, 0), param_value |-> LoadF32(bytes, 4),
   vertex_count |-> LoadU32(bytes, 8), pad |-> LoadU32(bytes, 12)]


\* ---- COMPUTE_SHADER: fn main -------------------------------------------------
WorkgroupSize == 64

\* cos and sin of param_value * 3.14159265, for the parameters that are whole
\* quarter turns (multiples of 1/2); the shader's value differs from these by
\* floating-point rounding only
IsQuarterTurns(a) == a.d \in {1, 2}
QuarterTurns(a) == ((a.n * (2 \div a.d)) % 4)
\* a sine that ignores the sign of the angle
cos(a) == QInt(<< 1, 0, -1, 0 >>[QuarterTurns(a) + 1])

\* a sine that ignores the sign of the angle
sinEven(a) == QInt(<< 0, 1, 0, 1 >>[QuarterTurns(a) + 1])

sin(a) == QInt(<< 0, 1, 0, -1 >>[QuarterTurns(a) + 1])

\* no clamping
clampNone(e, low, high) == e

clamp(e, low, high) ==
  LET m == IF QLess(e, low) THEN low ELSE e
  IN IF QLess(high, m) THEN high ELSE m

\* a scale of the X coordinate only
scaleXOnly(pv, v) == << QMul(v[1], pv), v[2], v[3] >>

\* lines 31-34, operation 0
scale(pv, v) == << QMul(v[1], pv), QMul(v[2], pv), QMul(v[3], pv) >>

\* lines 35-40, operation 1
rotate(pv, v) ==
  LET c == cos(pv)
      s == sin(pv)
  IN << QAdd(QMul(v[1], c), QMul(v[3], s)), v[2],
        QAdd(QMul(QNeg(v[1]), s), QMul(v[3], c)) >>

\* a translation along all three axes
translateAllAxes(pv, v) ==
  << QAdd(v[1], QMul(QSub(pv, QInt(1)), Q(1, 2))),
     QAdd(v[2], QMul(QSub(pv, QInt(1)), Q(1, 2))),
     QAdd(v[3], QMul(QSub(pv, QInt(1)), Q(1, 2))) >>

\* lines 41-42, operation 2
translate(pv, v) == << v[1], QAdd(v[2], QMul(QSub(pv, QInt(1)), Q(1, 2))), v[3] >>

NormSquared(v) == QAdd(QAdd(QMul(v[1], v[1]), QMul(v[2], v[2])), QMul(v[3], v[3]))
\* line 44
length(v) == QSqrt(NormSquared(v))

\* an inflate whose t is clamp(param, 0, 2) itself
inflateFromZero(pv, v) ==
  LET len == length(v)
      t == clamp(pv, QInt(0), QInt(2))
  IN IF QLess(Q(1, 1000), len)
     THEN << QAdd(v[1], QMul(QSub(QMul(QDiv(v[1], len), Q(1, 2)), v[1]), t)),
             QAdd(v[2], QMul(QSub(QMul(QDiv(v[2], len), Q(1, 2)), v[2]), t)),
             QAdd(v[3], QMul(QSub(QMul(QDiv(v[3], len), Q(1, 2)), v[3]), t)) >>
     ELSE v

\* lines 43-55, operation 3
inflate(pv, v) ==
  LET len == length(v)
  IN IF QLess(Q(1, 1000), len)
     THEN LET nx == QDiv(v[1], len)
              ny == QDiv(v[2], len)
              nz == QDiv(v[3], len)
              r == Q(1, 2)
              t == QSub(clamp(pv, QInt(0), QInt(2)), QInt(1))
          IN << QAdd(v[1], QMul(QSub(QMul(nx, r), v[1]), t)),
                QAdd(v[2], QMul(QSub(QMul(ny, r), v[2]), t)),
                QAdd(v[3], QMul(QSub(QMul(nz, r), v[3]), t)) >>
     ELSE v

\* lines 27-55: the output triple of one vertex v = << x, y, z >>
Transform(params, v) ==
  CASE params.operation = 0 -> scale(params.param_value, v)
    [] params.operation = 1 -> rotate(params.param_value, v)
    [] params.operation = 2 -> translate(params.param_value, v)
    [] params.operation = 3 -> inflate(params.param_value, v)
    [] OTHER -> v

\* whether invocation idx passes the guard of lines 18-20
Active(params, idx) == idx < params.vertex_count

\* the cells of input_verts invocation idx reads (lines 22-25) and the cells of
\* output_verts it writes (lines 57-59); the arrays are indexed from 0
Cells(params, idx) ==
  IF Active(params, idx) THEN << idx * 3, (idx * 3) + 1, (idx * 3) + 2 >> ELSE << >>

\* fn main for one invocation: the output array after it; arrays are
\* sequences, cell k of the shader is element k + 1
main(params, idx, input_verts, output_verts) ==
  IF ~Active(params, idx) THEN output_verts
  ELSE LET base == idx * 3
           o == Transform(params, << input_verts[base + 1], input_verts[base + 2],
                                     input_verts[base + 3] >>)
       IN [k \in 1..Len(output_verts) |->
             IF k = base + 1 THEN o[1]
             ELSE IF k = base + 2 THEN o[2]
             ELSE IF k = base + 3 THEN o[3]
             ELSE output_verts[k]]

\* a count of workgroups that rounds down
workgroupsFloor(vertexCount) == vertexCount \div WorkgroupSize

\* processOperation line 163: Math.ceil(vertexCount / 64)
workgroups(vertexCount) == (vertexCount + (WorkgroupSize - 1)) \div WorkgroupSize

\* ---- one process request, followed through the parameter block and the kernel
\* operation names a request may carry: the four of OP_MAP, an unknown one, and
\* one that Object.prototype defines
KernelNames == {"scale", "rotate", "translate", "inflate", "twist", "constructor"}
KernelParams ==
  {Q(-1, 1), Q(-1, 2), QInt(0), Q(1, 2), QInt(1), Q(3, 2), QInt(2), QInt(3)}
\* the mesh's vertex count, and the vertex invocation 0 works on
KernelCounts == {1, 8, 300}
KernelPoints ==
  {<< Q(1, 2), Q(-1, 2), Q(1, 2) >>, << QInt(0), QInt(0), QInt(0) >>,
   << Q(1, 1000), QInt(0), QInt(0) >>, << QInt(0), Q(1, 500), QInt(0) >>,
   << Q(3, 10), Q(2, 5), QInt(0) >>, << Q(3, 5), QInt(0), Q(-4, 5) >>,
   << Q(1, 10), Q(-1, 5), Q(1, 5) >>, << QInt(2), QInt(3), QInt(6) >>}

\* the requests whose result the exact arithmetic can follow
Exact(name, param, v) ==
  /\ IsF32(param)
  /\ name = "rotate" => IsQuarterTurns(param)
  /\ name = "inflate" => HasRoot(NormSquared(v))

KernelInit ==
  /\ PageLoaded
  /\ env = [navGpu |-> TRUE, clientW |-> 1, clientH |-> 1]
  /\ cam = InitCam
  /\ \E name \in KernelNames, param \in KernelParams, n \in KernelCounts,
        v \in KernelPoints :
       /\ Exact(name, param, v)
       /\ shader = [phase |-> "requested", round |-> 1, name |-> name,
                    param |-> param, vertexCount |-> n, first |-> v,
                    input_verts |-> v, bytes |-> [i \in 1..16 |-> 0],
                    output_verts |-> << QInt(0), QInt(0), QInt(0) >>]

\* processOperation lines 151-161: the parameter block is written
WriteParams ==
  /\ shader.phase = "requested"
  /\ shader' = [shader EXCEPT !.phase = "written",
                              !.bytes = uniformData(shader.name, shader.param,
                                                    shader.vertexCount)]
  /\ UNCHANGED << appVars, cam >>

\* the dispatch: invocation 0 of the kernel
Invoke ==
  /\ shader.phase = "written"
  /\ shader' = [shader EXCEPT !.phase = "ran",
                              !.output_verts = main(Params(shader.bytes), 0,
                                                    shader.input_verts,
                                                    shader.output_verts)]
  /\ UNCHANGED << appVars, cam >>

\* a second rotation by the opposite angle, applied to the first one's result
RequestInverse ==
  /\ shader.phase = "ran"
  /\ shader.round = 1
  /\ shader.name = "rotate"
  /\ shader' = [shader EXCEPT !.phase = "requested", !.round = 2,
                              !.param = QNeg(shader.param),
                              !.input_verts = shader.output_verts]
  /\ UNCHANGED << appVars, cam >>

KernelNext == WriteParams \/ Invoke \/ RequestInverse

KernelSpec == KernelInit /\ [][KernelNext]_vars

\* ---- one dispatch, invocation by invocation -----------------------------------
\* The invocations of a dispatch run in any order and in parallel; they are
\* taken in the order of their global id, which the number of times each cell
\* is read and written does not depend on.
\* the number of invocations dispatchWorkgroups(groups) starts
Invocations(groups) == groups * WorkgroupSize

\* a Scale(2.0) request on a mesh of vertexCount vertices whose cell k holds k
DispatchInit ==
  /\ PageLoaded
  /\ env = [navGpu |-> TRUE, clientW |-> 1, clientH |-> 1]
  /\ cam = InitCam
  /\ \E n \in 1..MaxVertexCount :
       shader = [phase |-> "dispatch", vertexCount |-> n,
                 bytes |-> uniformData("scale", QInt(2), n),
                 groups |-> workgroups(n), next |-> 0,
                 input_verts |-> [k \in 1..(3 * n) |-> QInt(k - 1)],
                 output_verts |-> [k \in 1..(3 * n) |-> QInt(0)],
                 read |-> [c \in 0..((3 * Invocations(workgroups(n))) - 1) |-> 0],
                 written |-> [c \in 0..((3 * Invocations(workgroups(n))) - 1) |-> 0]]

\* the invocation with global id shader.next runs fn main
Invocation ==
  /\ shader.phase = "dispatch"
  /\ shader.next < Invocations(shader.groups)
  /\ \E params \in {Params(shader.bytes)} :
     \E cells \in {Cells(params, shader.next)} :
       shader' =
         [shader EXCEPT
            !.next = shader.next + 1,
            !.output_verts = main(params, shader.next, shader.input_verts,
                                  shader.output_verts),
            !.read = [c \in DOMAIN shader.read |->
                        shader.read[c]
                          + Cardinality({i \in 1..Len(cells) : cells[i] = c})],
            !.written = [c \in DOMAIN shader.written |->
                           shader.written[c]
                             + Cardinality({i \in 1..Len(cells) : cells[i] = c})]]
  /\ UNCHANGED << appVars, cam >>

DispatchNext == Invocation

DispatchSpec == DispatchInit /\ [][DispatchNext]_vars

\* ---- the numbers a buffer of positions holds ------------------------------------
\* dispatchWorkgroups(Math.ceil(vertexCount / 64)) over whole buffers: the
\* invocations write disjoint cells and read none that another writes, so
\* each cell of the output holds what the one invocation that owns it
\* (idx = cell div 3) leaves there
Dispatch(params, input_verts, output_verts) ==
  [k \in 1..Len(output_verts) |->
     IF (k - 1) \div 3 < Invocations(workgroups(params.vertex_count))
     THEN main(params, (k - 1) \div 3, input_verts, output_verts)[k]
     ELSE output_verts[k]]

\* generateCubeMesh: the Float32Array of positions
CubeValues == [k \in 1..Len(CubePositions) |-> Q(CubePositions[k], 2)]

RECURSIVE Values(_)
\* the floats of a buffer of positions: the data it was initialised with, put
\* through the kernel passes applied since
Values(data) ==
  IF data.ops = << >>
  THEN IF data.base = "cube" THEN CubeValues
       ELSE [k \in 1..Len(CubePositions) |-> QInt(0)]
  ELSE LET o == data.ops[Len(data.ops)]
           in == Values([data EXCEPT !.ops = SubSeq(data.ops, 1, Len(data.ops) - 1)])
       IN Dispatch([operation |-> o.op, param_value |-> QInt(o.param),
                    vertex_count |-> Len(in) \div 3, pad |-> 0],
                   in, [k \in 1..Len(in) |-> QInt(0)])

\* ---- Renderer.setupControls: the camera ------------------------------------------
ZoomMin == 500000
ZoomMax == 10000000
Buttons == {0, 1, 2}
Targets == {"canvas", "page"}
WheelDeltas == {-100, 0, 100}
\* movementX, movementY in pixels: a small step and a sweep across the screen
Movements == {<< 3, -2 >>, << -400, 700 >>}

\* a clamp that keeps the lower limit only
clampZoomLow(z) == IF z < ZoomMin THEN ZoomMin ELSE z

\* Math.max(0.5, Math.min(10, zoom))
clampZoom(z) == Max(ZoomMin, IF z < ZoomMax THEN z ELSE ZoomMax)

\* zoom * 1.08 or zoom * 0.92, rounded to the nearest millionth
zoomTimes(z, hundredths) == ((z * hundredths) + 50) \div 100

\* the listeners exist once renderer.init() has run setupControls, and run
\* between tasks
Listening == ren.controls /\ TaskBoundary

\* canvas 'wheel'
Wheel(deltaY) ==
  /\ Listening
  /\ cam.wheels < MaxWheels
  /\ LET dir == IF deltaY > 0 THEN 1 ELSE -1
         turns == IF cam.dir # 0 /\ cam.dir # dir THEN cam.turns + 1 ELSE cam.turns
     IN /\ turns <= MaxReversals
        /\ cam' = [cam EXCEPT
                     !.zoom = clampZoom(zoomTimes(cam.zoom, IF deltaY > 0 THEN 108 ELSE 92)),
                     !.wheels = cam.wheels + 1, !.dir = dir, !.turns = turns,
                     !.event = [NoEvent EXCEPT !.type = "wheel", !.target = "canvas",
                                               !.dy = deltaY]]
  /\ UNCHANGED << appVars, shader >>

\* a mousedown listener that starts a drag on any button
MouseDownAnyButton(button, target) ==
  /\ Listening
  /\ cam' = [cam EXCEPT
               !.dragging = IF target = "canvas" THEN TRUE ELSE cam.dragging,
               !.event = [NoEvent EXCEPT !.type = "mousedown", !.button = button,
                                         !.target = target]]
  /\ UNCHANGED << appVars, shader >>

\* 'mousedown': the listener is on the canvas
MouseDown(button, target) ==
  /\ Listening
  /\ cam' = [cam EXCEPT
               !.dragging = IF target = "canvas" /\ (button = 0 \/ button = 2)
                            THEN TRUE ELSE cam.dragging,
               !.event = [NoEvent EXCEPT !.type = "mousedown", !.button = button,
                                         !.target = target]]
  /\ UNCHANGED << appVars, shader >>

\* 'mouseup': the listener is on the window
MouseUp ==
  /\ Listening
  /\ cam' = [cam EXCEPT !.dragging = FALSE,
                        !.event = [NoEvent EXCEPT !.type = "mouseup"]]
  /\ UNCHANGED << appVars, shader >>

\* 'mousemove': the listener is on the window
MouseMove(movementX, movementY) ==
  /\ Listening
  /\ cam.moves < MaxMoves
  /\ cam' = [cam EXCEPT
               !.rotY = IF cam.dragging THEN cam.rotY + movementX ELSE cam.rotY,
               !.rotX = IF cam.dragging THEN cam.rotX + movementY ELSE cam.rotX,
               !.moves = cam.moves + 1,
               !.event = [NoEvent EXCEPT !.type = "mousemove", !.dx = movementX,
                                         !.dy = movementY]]
  /\ UNCHANGED << appVars, shader >>

\* a start-up in which nothing fails, on a canvas of 1 x 1
CameraInit ==
  /\ PageLoaded
  /\ env = [navGpu |-> TRUE, clientW |-> 1, clientH |-> 1]
  /\ cam = InitCam
  /\ shader = NoShader

CameraNext ==
  \/ InitStart
  \/ AdapterSettled("adapter")
  \/ DeviceSettled("device")
  \/ InfoSettled("info")
  \/ InitGenerateCubeMesh
  \/ InitComputePipeline
  \/ InitCreateBuffers(FALSE)
  \/ InitSetupBindGroup
  \/ InitRenderer(FALSE)
  \/ InitUpdateMesh("none")
  \/ InitRegisterHandlers
  \/ InitAnimate
  \/ \E deltaY \in WheelDeltas : Wheel(deltaY)
  \/ \E button \in Buttons, target \in Targets : MouseDown(button, target)
  \/ MouseUp
  \/ \E m \in Movements : MouseMove(m[1], m[2])

CameraSpec == CameraInit /\ [][CameraNext]_vars

\* ---- process requests in a session without failures or resets ------------------
\* the click handler's `operation` and `param` are kept in `shader` until the
\* next click
RequestClick(operation) ==
  /\ ClickHandler(operation)
  /\ shader' = [phase |-> "requested", operation |-> operation, param |-> ui.paramSlider]
  /\ UNCHANGED cam

\* the request's positions have been fetched and uploaded
RequestFetched(i) ==
  /\ MappedHandler(i, "none")
  /\ shader' = [shader EXCEPT !.phase = "fetched"]
  /\ UNCHANGED cam

RequestInit ==
  /\ PageLoaded
  /\ env.navGpu
  /\ cam = InitCam
  /\ shader = NoShader

RequestNext ==
  \/ InitStart
  \/ AdapterSettled("adapter")
  \/ DeviceSettled("device")
  \/ InfoSettled("info")
  \/ InitGenerateCubeMesh
  \/ InitComputePipeline
  \/ InitCreateBuffers(FALSE)
  \/ InitSetupBindGroup
  \/ InitRenderer(FALSE)
  \/ InitUpdateMesh("none")
  \/ InitRegisterHandlers
  \/ InitAnimate
  \/ Frame
  \/ \E sz \in ClientSizes : Resize(sz[1], sz[2])
  \/ \E v \in SliderValues : SliderInput(v)
  \/ \E o \in OpNames : RequestClick(o)
  \/ \E i \in 1..MaxInflight : ProcessWorkDone(i)
  \/ \E i \in 1..MaxInflight : RequestFetched(i)
  \/ GpuExecute

RequestSpec == RequestInit /\ [][RequestNext]_vars

\* ---- sessions of process requests and resets, without failures -------------------
\* `shader` keeps which button was clicked last: phase "requested" with the
\* click handler's `operation` and `param` after a process click, phase
\* "reset" after a reset click
SessionReset ==
  /\ ResetHandler(FALSE, "none")
  /\ shader' = [phase |-> "reset"]
  /\ UNCHANGED cam

SessionNext ==
  \/ InitStart
  \/ AdapterSettled("adapter")
  \/ DeviceSettled("device")
  \/ InfoSettled("info")
  \/ InitGenerateCubeMesh
  \/ InitComputePipeline
  \/ InitCreateBuffers(FALSE)
  \/ InitSetupBindGroup
  \/ InitRenderer(FALSE)
  \/ InitUpdateMesh("none")
  \/ InitRegisterHandlers
  \/ InitAnimate
  \/ Frame
  \/ \E sz \in ClientSizes : Resize(sz[1], sz[2])
  \/ \E v \in SliderValues : SliderInput(v)
  \/ \E o \in OpNames : RequestClick(o)
  \/ \E i \in 1..MaxInflight : ProcessWorkDone(i)
  \/ \E i \in 1..MaxInflight : ProcessMapped(i, "none")
  \/ SessionReset
  \/ GpuExecute

SessionSpec == RequestInit /\ [][SessionNext]_vars

\* ---- process requests whose promises resolve ---------------------------------------
\* The device executes what was submitted, and a handler suspended at an
\* await goes on once the promise it awaits has resolved: the event loop runs
\* the continuation of a resolved promise.
Scheduling ==
  /\ WF_vars(GpuExecute)
  /\ \A i \in 1..MaxInflight :
       /\ WF_vars(ProcessWorkDone(i))
       /\ WF_vars(\E f \in {"none", "vertex", "index"} : ProcessMapped(i, f))

\* the application's steps without rejections of onSubmittedWorkDone() and
\* mapAsync()
LiveNext ==
  \/ InitStart
  \/ \E o \in {"adapter", "null", "reject"} : AdapterSettled(o)
  \/ \E o \in {"device", "reject"} : DeviceSettled(o)
  \/ \E o \in {"info", "reject"} : InfoSettled(o)
  \/ InitGenerateCubeMesh
  \/ InitComputePipeline
  \/ \E f \in BOOLEAN : InitCreateBuffers(f)
  \/ InitSetupBindGroup
  \/ \E f \in BOOLEAN : InitRenderer(f)
  \/ \E f \in {"none", "vertex", "index"} : InitUpdateMesh(f)
  \/ InitRegisterHandlers
  \/ InitAnimate
  \/ Frame
  \/ \E sz \in ClientSizes : Resize(sz[1], sz[2])
  \/ DeviceLost
  \/ \E v \in SliderValues : SliderInput(v)
  \/ \E o \in OpNames : ProcessClick(o)
  \/ \E i \in 1..MaxInflight : ProcessWorkDone(i)
  \/ \E i \in 1..MaxInflight, f \in {"none", "vertex", "index"} : ProcessMapped(i, f)
  \/ \E m \in BOOLEAN, f \in {"none", "vertex", "index"} : ResetClick(m, f)
  \/ GpuExecute

LiveSpec == Init /\ [][LiveNext]_vars /\ Scheduling

\* ---- properties ------------------------------------------------------------
\* C1: process requests are serialized: at most one process click handler is
\* suspended at any time, the process button is disabled for as long as one
\* is, and the commands in the device queue belong to at most one request.
C1_ProcessSerialized ==
  /\ Len(inflight) <= 1
  /\ inflight # << >> => ui.processDisabled
  /\ Cardinality({queue[i].req : i \in 1..Len(queue)}) <= 1

\* a second request is awaiting its readback after a first one completed
C1_Witness ==
  /\ ui.computeTime = "elapsed"
  /\ ui.processDisabled
  /\ \E i \in 1..Len(inflight) : inflight[i].pc = "mapAsync"

\* C2: the readback copy of a request is in the queue, and its handler waits
\* for the mapping, only when the compute submission of that request is no
\* longer pending.
C2_ReadbackAfterDispatch ==
  /\ \A i \in 1..Len(queue) :
       queue[i].kind = "copy" => ~Pending(queue[i].req, "dispatch")
  /\ \A i \in 1..Len(inflight) :
       inflight[i].pc = "mapAsync" => ~Pending(inflight[i].id, "dispatch")

\* a readback copy is queued whose source already holds the kernel's output
C2_Witness ==
  \E i \in 1..Len(queue) :
    /\ queue[i].kind = "copy"
    /\ queue[i].valid
    /\ gpu.content[queue[i].a].ops # << >>

\* C3: a failed process request aborts only itself: once no process handler
\* is in flight the process button is enabled again, and a process step
\* leaves the viewport a live vertex buffer.
C3_FailedRequestLeavesSystemUsable ==
  /\ (initPc = "running" /\ inflight = << >>) => ~ui.processDisabled
  /\ lastIndex.by = "process" => ren.vertexBuffer \in gpu.live

\* C4: the init steps complete in their fixed order; handlers are registered
\* and frames rendered only after all seven steps before addEventListener
\* have completed, with every object they installed in place; after a failed
\* init there is no handler, no frame request and no render call.
C4_PrerequisitesBeforeHandlers ==
  LET order == << "gpuManager.init", "generateCubeMesh", "initComputePipeline",
                  "createBuffers", "setupBindGroup", "rendererInit", "updateMesh",
                  "addEventListener", "animate" >>
  IN /\ \E n \in 0..Len(order) : initLog = SubSeq(order, 1, n)
     /\ (handlers.slider \/ handlers.process \/ handlers.reset \/ raf > 0
           \/ lastRender.called) => Len(initLog) >= 7
     /\ initPc \in {"addEventListener", "animate"} =>
          /\ gm.device /\ stl.meshData.set /\ stl.computePipeline
          /\ {stl.inputBuffer, stl.outputBuffer, stl.uniformBuffer} \subseteq gpu.live
          /\ stl.bindGroup = [set |-> TRUE, b0 |-> stl.inputBuffer,
                              b1 |-> stl.outputBuffer, b2 |-> stl.uniformBuffer]
          /\ ren.renderPipeline
          /\ {ren.mvpBuffer, ren.vertexBuffer, ren.indexBuffer} \subseteq gpu.live
     /\ initPc = "failed" =>
          /\ ~handlers.slider /\ ~handlers.process /\ ~handlers.reset
          /\ raf = 0 /\ ~lastRender.called

\* the app is running with its handlers registered and a frame just rendered
C4_Witness ==
  /\ initPc = "running"
  /\ handlers.process /\ handlers.reset
  /\ lastRender.called /\ lastRender.drew

C6_DeviceLossSurfaced ==
  lost.lost => (lost.logged /\ ~ui.errorHidden /\ gm.deviceRequests <= 1)

C8_ZeroAreaRenderIsNoOp ==
  (lastRender.called /\ (env.clientW = 0 \/ env.clientH = 0)) =>
     (lastRender.writes = 0 /\ lastRender.encodes = 0 /\ lastRender.submits = 0)

\* C9: in each of the six slots at most one object is live, never more than
\* one was live at the moment a new one was created, and none was dropped
\* while live.
C9_OneLiveHandlePerSlot ==
  \A slot \in {"input", "output", "uniform", "vertex", "index", "depth"} :
    /\ gpu.peak[slot] <= 1
    /\ Cardinality(LiveIn(gpu, slot)) <= 1
    /\ slot \notin gpu.leaked

\* a reset has just replaced the buffers of every slot it owns
C9_Witness ==
  /\ lastIndex.by = "reset" /\ lastIndex.made /\ lastIndex.destroyed
  /\ \A slot \in {"input", "output", "uniform", "vertex", "index", "depth"} :
       gpu.peak[slot] = 1 /\ Cardinality(LiveIn(gpu, slot)) = 1

\* C10: the index buffer is created by init's updateMesh without destroying
\* one, a process step neither creates nor destroys it, and only init and
\* reset steps create or destroy it.
C10_IndexBufferStable ==
  /\ lastIndex.by = "init" => ~lastIndex.destroyed
  /\ lastIndex.by = "process" => (~lastIndex.made /\ ~lastIndex.destroyed)
  /\ (lastIndex.made \/ lastIndex.destroyed) => lastIndex.by \in {"init", "reset"}

\* ---- properties of one process request (KernelSpec) -----------------------------
\* C12: the parameter block is 16 bytes: the operation code as a little-endian
\* u32 at offset 0, the parameter as a little-endian IEEE 754 binary32 at
\* offset 4, the vertex count as a little-endian u32 at offset 8 and a zero u32
\* at offset 12; the kernel's Params struct reads the same four values back.
C12_ParamsLayout ==
  shader.phase \in {"written", "ran"} =>
    LET b == shader.bytes
        p == shader.param
        f32le == CASE p = QInt(-3) -> << 0, 0, 64, 192 >>
                   [] p = QInt(-2) -> << 0, 0, 0, 192 >>
                   [] p = Q(-3, 2) -> << 0, 0, 192, 191 >>
                   [] p = QInt(-1) -> << 0, 0, 128, 191 >>
                   [] p = Q(-1, 2) -> << 0, 0, 0, 191 >>
                   [] p = QInt(0) -> << 0, 0, 0, 0 >>
                   [] p = Q(1, 2) -> << 0, 0, 0, 63 >>
                   [] p = QInt(1) -> << 0, 0, 128, 63 >>
                   [] p = Q(3, 2) -> << 0, 0, 192, 63 >>
                   [] p = QInt(2) -> << 0, 0, 0, 64 >>
                   [] p = QInt(3) -> << 0, 0, 64, 64 >>
    IN /\ Len(b) = 16
       /\ b[1] \in 0..3 /\ b[2] = 0 /\ b[3] = 0 /\ b[4] = 0
       /\ << b[5], b[6], b[7], b[8] >> = f32le
       /\ b[9] = shader.vertexCount % 256
       /\ b[10] = shader.vertexCount \div 256
       /\ b[11] = 0 /\ b[12] = 0
       /\ b[13] = 0 /\ b[14] = 0 /\ b[15] = 0 /\ b[16] = 0
       /\ Params(b) = [operation |-> b[1], param_value |-> shader.param,
                       vertex_count |-> shader.vertexCount, pad |-> 0]

\* an inflate request with param -0.5 on a mesh of 300 vertices has been written
C12_Witness ==
  /\ shader.phase = "written"
  /\ shader.name = "inflate" /\ shader.param = Q(-1, 2) /\ shader.vertexCount = 300
  /\ shader.bytes = << 3, 0, 0, 0, 0, 0, 0, 191, 44, 1, 0, 0, 0, 0, 0, 0 >>

\* C13: "scale", "rotate", "translate" and "inflate" are written as operation
\* codes 0, 1, 2 and 3; every other name is written as code 0 and the kernel
\* scales the vertex by the parameter.
C13_OperationCode ==
  /\ shader.phase \in {"written", "ran"} =>
       Params(shader.bytes).operation =
         (CASE shader.name = "scale" -> 0
            [] shader.name = "rotate" -> 1
            [] shader.name = "translate" -> 2
            [] shader.name = "inflate" -> 3
            [] OTHER -> 0)
  /\ (shader.phase = "ran"
        /\ shader.name \notin {"scale", "rotate", "translate", "inflate"}) =>
       shader.output_verts =
         << QMul(shader.input_verts[1], shader.param),
            QMul(shader.input_verts[2], shader.param),
            QMul(shader.input_verts[3], shader.param) >>

\* a request named "constructor" with param 2.0 has doubled a cube corner
C13_Witness ==
  /\ shader.phase = "ran"
  /\ shader.name = "constructor" /\ shader.param = QInt(2)
  /\ shader.input_verts = << Q(1, 2), Q(-1, 2), Q(1, 2) >>
  /\ shader.output_verts = << QInt(1), QInt(-1), QInt(1) >>

\* C15: Translate changes only Y: the output Y is the input Y plus
\* (param - 1) * 0.5 and X and Z are the input's; with param 3.0 the output Y
\* is the input Y plus 1.0.
C15_TranslateOnlyY ==
  (shader.phase = "ran" /\ shader.name = "translate") =>
    LET v == shader.input_verts
        o == shader.output_verts
    IN /\ o[1] = v[1]
       /\ o[3] = v[3]
       /\ o[2] = QAdd(v[2], QMul(QSub(shader.param, QInt(1)), Q(1, 2)))
       /\ shader.param = QInt(3) => o[2] = QAdd(v[2], QInt(1))

\* Translate(3.0) has moved the cube corner (0.5, -0.5, 0.5) to (0.5, 0.5, 0.5)
C15_Witness ==
  /\ shader.phase = "ran"
  /\ shader.name = "translate" /\ shader.param = QInt(3)
  /\ shader.input_verts = << Q(1, 2), Q(-1, 2), Q(1, 2) >>
  /\ shader.output_verts = << Q(1, 2), Q(1, 2), Q(1, 2) >>

\* C16 as stated: Inflate with param 0.0 maps a vertex farther than 0.001 from
\* the origin to distance 0.5 along its direction (output = 0.5 * v / |v|) and
\* leaves a vertex at distance <= 0.001 unchanged.
C16_InflateZeroToSphere ==
  (shader.phase = "ran" /\ shader.name = "inflate" /\ shader.param = QInt(0)) =>
    LET v == shader.input_verts
        o == shader.output_verts
        len == length(v)
    IN IF QLess(Q(1, 1000), len)
       THEN \A i \in 1..3 : QMul(o[i], len) = QMul(v[i], Q(1, 2))
       ELSE o = v

\* C16 amended: Inflate leaves a vertex at distance <= 0.001 unchanged; a
\* farther vertex is mapped to distance 0.5 along its direction by param >= 2.0,
\* and to 2 * v - 0.5 * v / |v| by param <= 0.0.
C16_InflateTwoToSphere ==
  (shader.phase = "ran" /\ shader.name = "inflate") =>
    LET v == shader.input_verts
        o == shader.output_verts
        len == length(v)
    IN IF QLess(Q(1, 1000), len)
       THEN /\ ~QLess(shader.param, QInt(2)) =>
                 \A i \in 1..3 : QMul(o[i], len) = QMul(v[i], Q(1, 2))
            /\ ~QLess(QInt(0), shader.param) =>
                 \A i \in 1..3 :
                   QMul(o[i], len) =
                     QSub(QMul(QMul(QInt(2), v[i]), len), QMul(v[i], Q(1, 2)))
       ELSE o = v

\* Inflate(2.0) has put (2, 3, 6), at distance 7, on the sphere of radius 0.5
C16_Witness ==
  /\ shader.phase = "ran"
  /\ shader.name = "inflate" /\ shader.param = QInt(2)
  /\ shader.input_verts = << QInt(2), QInt(3), QInt(6) >>
  /\ shader.output_verts = << Q(1, 7), Q(3, 14), Q(3, 7) >>

\* C17: Scale, Inflate and Translate with param 1.0 leave every coordinate as
\* it was.
C17_ParamOneIsIdentity ==
  (shader.phase = "ran" /\ shader.param = QInt(1)
     /\ shader.name \in {"scale", "inflate", "translate"}) =>
    shader.output_verts = shader.input_verts

\* Inflate(1.0) has run on a vertex far from the sphere and left it in place
C17_Witness ==
  /\ shader.phase = "ran"
  /\ shader.name = "inflate" /\ shader.param = QInt(1)
  /\ shader.input_verts = << QInt(2), QInt(3), QInt(6) >>
  /\ shader.output_verts = << QInt(2), QInt(3), QInt(6) >>

C11_EachVertexWrittenOnce ==
  shader.phase = "dispatch" =>
    /\ (shader.groups - 1) * 64 < shader.vertexCount
    /\ shader.vertexCount <= shader.groups * 64
    /\ \A c \in DOMAIN shader.written :
         /\ shader.written[c] <= 1
         /\ c >= 3 * shader.vertexCount =>
              (shader.written[c] = 0 /\ shader.read[c] = 0)
         /\ (c < 3 * shader.next /\ c < 3 * shader.vertexCount) =>
              shader.written[c] = 1
    /\ shader.next = 64 * shader.groups =>
         \A k \in 1..(3 * shader.vertexCount) :
           shader.output_verts[k] = QInt(2 * (k - 1))

\* a dispatch for 65 vertices has run all 128 invocations of its 2 workgroups
C11_Witness ==
  /\ shader.phase = "dispatch"
  /\ shader.vertexCount = 65 /\ shader.groups = 2 /\ shader.next = 128
  /\ shader.written[194] = 1 /\ shader.written[195] = 0
  /\ shader.output_verts[195] = QInt(388)

\* ---- properties of a process request end to end (RequestSpec) ---------------------
\* C14: when a process request has completed, the positions it fetched and
\* uploaded to the vertex buffer are the cube's coordinates multiplied by the
\* request's parameter (every operation name of this specification is written
\* as Scale); after Scale with param 2.0 every coordinate is twice the input.
C14_ScaleEndToEnd ==
  shader.phase = "fetched" =>
    /\ ren.vertexBuffer \in gpu.live
    /\ Values(gpu.content[ren.vertexBuffer]) =
         [k \in 1..Len(CubePositions) |-> QMul(QInt(shader.param), CubeValues[k])]
    /\ (shader.operation = "scale" /\ shader.param = 2) =>
         \A k \in 1..Len(CubePositions) :
           Values(gpu.content[ren.vertexBuffer])[k]
             = QAdd(CubeValues[k], CubeValues[k])

\* Scale(2.0) has completed and the vertex buffer holds the corner
\* (-1, -1, -1) first
C14_Witness ==
  /\ shader = [phase |-> "fetched", operation |-> "scale", param |-> 2]
  /\ lastIndex.by = "process" /\ ui.computeTime = "elapsed"
  /\ ren.vertexBuffer \in gpu.live
  /\ SubSeq(Values(gpu.content[ren.vertexBuffer]), 1, 3)
       = << QInt(-1), QInt(-1), QInt(-1) >>

\* ---- properties of the camera controls (CameraSpec) --------------------------------
\* C19: the zoom starts at 2.5 and stays in [0.5, 10]; a wheel event with
\* deltaY > 0 (scroll down) sets it to 1.08 times its value, one with
\* deltaY < 0 (scroll up) to 0.92 times its value, clamped to the interval;
\* no other step changes it.
C19_ZoomClamped ==
  /\ cam.zoom = 2500000
  /\ [][/\ cam'.zoom >= 500000 /\ cam'.zoom <= 10000000
        /\ (cam'.event.type = "wheel" /\ cam'.event.dy > 0) =>
             LET z == ((cam.zoom * 108) + 50) \div 100
             IN cam'.zoom = IF z > 10000000 THEN 10000000 ELSE z
        /\ (cam'.event.type = "wheel" /\ cam'.event.dy < 0) =>
             LET z == ((cam.zoom * 92) + 50) \div 100
             IN cam'.zoom = IF z < 500000 THEN 500000 ELSE z
        /\ cam'.event.type # "wheel" => cam'.zoom = cam.zoom]_vars

\* the 19th scroll-down in a row has been clamped to 10
C19_Witness ==
  /\ cam.event.type = "wheel" /\ cam.event.dy > 0
  /\ cam.wheels = 19 /\ cam.turns = 0
  /\ cam.zoom = 10000000

\* C20: a press of button 0 or 2 on the canvas starts a drag, no other press
\* does, and any release ends it; a mousemove while dragging adds movementX to
\* rotation.y and movementY to rotation.x (in units of 0.005 rad) whatever
\* their size; no other step changes the rotation.
C20_RotationOnlyWhileDragging ==
  [][/\ (cam'.rotX # cam.rotX \/ cam'.rotY # cam.rotY) =>
          (cam.dragging /\ cam'.event.type = "mousemove")
     /\ cam'.event.type = "mousedown" =>
          (cam'.dragging <=>
             (cam.dragging \/ (cam'.event.target = "canvas"
                                /\ cam'.event.button \in {0, 2})))
     /\ cam'.event.type = "mouseup" => ~cam'.dragging
     /\ cam'.event.type \notin {"mousedown", "mouseup"} =>
          (cam'.dragging <=> cam.dragging)
     /\ cam'.event.type = "mousemove" =>
          IF cam.dragging
          THEN /\ cam'.rotY = cam.rotY + cam'.event.dx
               /\ cam'.rotX = cam.rotX + cam'.event.dy
          ELSE cam'.rotY = cam.rotY /\ cam'.rotX = cam.rotX]_vars

\* a drag has swept the camera from rotation (-0.4, 0.6) to (3.1, -1.4)
C20_Witness ==
  /\ cam.event.type = "mousemove" /\ cam.dragging
  /\ cam.event.dx = -400 /\ cam.event.dy = 700
  /\ cam.rotX = 620 /\ cam.rotY = -280

\* ---- properties of the application, continued (Spec) ------------------------------
\* C21: once initApp has completed, the mesh is the literal cube: 8 vertices,
\* 36 indices (a multiple of 3), every index below the vertex count, and the
\* index count the renderer draws with is the length of the index list.
C21_MeshIsUnitCube ==
  initPc = "running" =>
    /\ stl.meshData.set
    /\ stl.meshData.vertices = CubeData
    /\ stl.meshData.vertexCount = 8
    /\ Len(CubePositions) = 3 * stl.meshData.vertexCount
    /\ Len(stl.meshData.indices) = 36
    /\ Len(stl.meshData.indices) % 3 = 0
    /\ \A k \in 1..Len(stl.meshData.indices) :
         stl.meshData.indices[k] \in 0..(stl.meshData.vertexCount - 1)
    /\ ren.indexCount = Len(stl.meshData.indices)

\* a frame draws the mesh after a reset has completed
C21_Witness ==
  /\ initPc = "running"
  /\ ui.computeTime = "0ms"
  /\ lastRender.called /\ lastRender.drew
  /\ stl.meshData.vertexCount = 8 /\ ren.indexCount = 36

\* C22: at most one frame request is outstanding; a step that runs render()
\* runs it once, leaves exactly one frame request outstanding, and is no step
\* of a process or reset handler: it changes no object, no field of stlOps or
\* of the renderer, no request in flight and nothing on the page; the number
\* of outstanding frame requests changes in no other step.
C22_FrameLoopNotReentrant ==
  [][/\ raf \in {0, 1} /\ raf' \in {0, 1}
     /\ lastRender'.called =>
          /\ raf' = 1
          /\ lastRender'.writes <= 1 /\ lastRender'.encodes <= 1
          /\ lastRender'.submits <= 1
          /\ lastIndex' = NoIndexEffect
          /\ UNCHANGED << gpu, stl, ren, queue, inflight, ui, faults, handlers >>
     /\ ~lastRender'.called => raf' = raf]_vars

\* a frame has been rendered while a process request is suspended
C22_Witness ==
  /\ lastRender.called /\ lastRender.submits = 1
  /\ raf = 1
  /\ Len(inflight) = 1
  /\ ui.processDisabled

\* ---- properties of sessions with resets (SessionSpec) -------------------------------
\* C23: when the last click was a reset and nothing is pending any more (no
\* suspended process request, no submitted command), the viewport's vertex
\* buffer is live and holds the cube's positions.
C23_ResetRestoresCube ==
  (shader.phase = "reset" /\ inflight = << >> /\ queue = << >>) =>
     /\ ren.vertexBuffer \in gpu.live
     /\ Values(gpu.content[ren.vertexBuffer]) = CubeValues

\* C24: a process request reads back the buffer that was bound as binding 1
\* when its dispatch was submitted, and the positions it is about to upload
\* (the staging buffer, once the copy has run) are what a kernel pass left in
\* that buffer.
C24_ReadsOwnDispatchOutput ==
  \A i \in 1..Len(inflight) :
    inflight[i].pc = "mapAsync" =>
      /\ inflight[i].src = inflight[i].out
      /\ ~Pending(inflight[i].id, "copy") =>
            /\ gpu.content[inflight[i].staging] = gpu.content[inflight[i].out]
            /\ gpu.content[inflight[i].staging].ops # << >>

\* C25: between handlers the compute bind group names exactly stlOps' current
\* input, output and uniform buffers, and every command buffer submitted to
\* the queue (dispatch, readback copy, render pass) used only objects that
\* were live when it was submitted.
C25_SubmittedBuffersLive ==
  /\ (TaskBoundary /\ stl.bindGroup.set) =>
        /\ stl.bindGroup.b0 = stl.inputBuffer
        /\ stl.bindGroup.b1 = stl.outputBuffer
        /\ stl.bindGroup.b2 = stl.uniformBuffer
  /\ \A i \in 1..Len(queue) : queue[i].valid
  /\ (lastRender.called /\ lastRender.submits = 1) => lastRender.valid

\* C26: the mesh and the compute input buffer always hold the cube's
\* positions, whatever process requests have run, and every buffer a kernel
\* pass has written holds the cube with exactly one operation applied:
\* deformations do not accumulate.
C26_DeformationsDoNotAccumulate ==
  /\ stl.meshData.set => stl.meshData.vertices = CubeData
  /\ stl.inputBuffer # Null => gpu.content[stl.inputBuffer] = CubeData
  /\ \A h \in DataHandles :
       /\ Len(gpu.content[h].ops) <= 1
       /\ gpu.content[h].ops # << >> => gpu.content[h].base = "cube"

\* a second Scale(2.0) request in a row has been read back: like the first
\* it yields the doubled cube, and the input buffer still holds the cube
C26_Witness ==
  /\ ui.computeTime = "elapsed"
  /\ ren.vertexBuffer \in gpu.live
  /\ Values(gpu.content[ren.vertexBuffer])[1] = QInt(-1)
  /\ stl.inputBuffer \in gpu.live
  /\ gpu.content[stl.inputBuffer] = CubeData
  /\ \E i \in 1..Len(inflight) :
       /\ inflight[i].pc = "mapAsync"
       /\ ~Pending(inflight[i].id, "copy")
       /\ inflight[i].src = inflight[i].out
       /\ Values(gpu.content[inflight[i].staging])[1] = QInt(-1)

\* ---- liveness of a process request (LiveSpec) ----------------------------------------
\* C27: with promises that resolve, a process request ends by uploading its
\* positions and enabling the process button again, so the button is
\* disabled only while a request is suspended that will enable it: the step
\* that ends a request leaves the button enabled and the viewport a live
\* vertex buffer.  (processBtn.disabled is set to false by the click
\* handler's last statement only; a state with the button disabled and no
\* handler suspended has it disabled for good.)
C27_ProcessTriggerReenabled ==
  /\ ui.processDisabled => inflight # << >>
  /\ lastIndex.by = "process" =>
       (~ui.processDisabled /\ ren.vertexBuffer \in gpu.live)

====
